---- MODULE Spec2Model ----
(***************************************************************************)
(* A model of tictactoe.py: the BoardState class (grid of mutable rows and *)
(* a cached value), its operations make_move, get_valid_board_states and   *)
(* update_value, and the alpha-beta search built on them.                  *)
(*                                                                         *)
(* Python lists are mutable and shared by reference, so a grid is kept as  *)
(* a sequence of row references into a heap of rows; copy.deepcopy         *)
(* allocates new rows.  Coordinates are 0-based as in the code; sequences  *)
(* are 1-based, so a Python index i reads element i + 1.                   *)
(***************************************************************************)
EXTENDS Integers, Sequences, FiniteSets, TLC

PLAYER_ONE == "x"
PLAYER_TWO == "o"
PLAYER_ONE_WIN_VALUE == 1
PLAYER_TWO_WIN_VALUE == -1
TIE_VALUE == 0

\* board_size=3, the size the program plays with; constructions use 1..board_size
board_size == 3

\* exploration bound: the caller of the API puts at most MaxMarks marks on a grid
MaxMarks == 3

Players == {PLAYER_ONE, PLAYER_TWO}

\* Python's None in a cell
None == "None"
\* Python's None in the value field: the field holds <<>> or <<v>>
NoValue == <<>>
Some(v) == <<v>>

Cells == {None, PLAYER_ONE, PLAYER_TWO}

VARIABLES
  rowheap,            \* row reference -> the row list it denotes
  board_state,        \* the BoardState the caller holds: [board, value]
  next_board_states,  \* the list last returned by get_valid_board_states
  call,               \* the call that has just returned, or Idle
  err                 \* the exception that call raised, or "none"

vars == <<rowheap, board_state, next_board_states, call, err>>

----------------------------------------------------------------------------
(* Grids as values *)

\* the grid an object denotes in heap h
Grid(h, bs) == [i \in 1..Len(bs.board) |-> h[bs.board[i]]]

RowFull(board, r, p) == \A c \in 1..Len(board[r]) : board[r][c] = p
ColFull(board, i, p) == \A r \in 1..Len(board) : board[r][i] = p
DiagFull(board, p) == \A i \in 1..Len(board) : board[i][i] = p
\* board[board_size - i - 1][i] for i in range(board_size)
AntiFull(board, p) ==
  \A i \in 0..(Len(board) - 1) : board[Len(board) - i - 1 + 1][i + 1] = p

\* the row check looking for PlayerOne's full row in every row before PlayerTwo's
RECURSIVE ScanRows(_, _)
ScanRows_player_one_first(board, r) ==
  IF \E k \in r..Len(board) : RowFull(board, k, PLAYER_ONE)
  THEN Some(PLAYER_ONE_WIN_VALUE)
  ELSE IF \E k \in r..Len(board) : RowFull(board, k, PLAYER_TWO)
  THEN Some(PLAYER_TWO_WIN_VALUE)
  ELSE NoValue

\* the loop over rows: the first row that is full decides, <<>> if none is
ScanRows(board, r) ==
  IF r > Len(board) THEN NoValue
  ELSE IF RowFull(board, r, PLAYER_ONE) THEN Some(PLAYER_ONE_WIN_VALUE)
  ELSE IF RowFull(board, r, PLAYER_TWO) THEN Some(PLAYER_TWO_WIN_VALUE)
  ELSE ScanRows(board, r + 1)

\* the loop over columns
RECURSIVE ScanCols(_, _)
\* the column scan that looks for PlayerOne's columns only
ScanCols_player_one_only(board, i) ==
  IF i > Len(board) THEN NoValue
  ELSE IF ColFull(board, i, PLAYER_ONE) THEN Some(PLAYER_ONE_WIN_VALUE)
  ELSE ScanCols(board, i + 1)

ScanCols(board, i) ==
  IF i > Len(board) THEN NoValue
  ELSE IF ColFull(board, i, PLAYER_ONE) THEN Some(PLAYER_ONE_WIN_VALUE)
  ELSE IF ColFull(board, i, PLAYER_TWO) THEN Some(PLAYER_TWO_WIN_VALUE)
  ELSE ScanCols(board, i + 1)

\* the diagonal check whose last branch tests PlayerOne's mark a second time
ScanDiags_player_one_twice(board) ==
  IF DiagFull(board, PLAYER_ONE) THEN Some(PLAYER_ONE_WIN_VALUE)
  ELSE IF DiagFull(board, PLAYER_TWO) THEN Some(PLAYER_TWO_WIN_VALUE)
  ELSE IF AntiFull(board, PLAYER_ONE) THEN Some(PLAYER_ONE_WIN_VALUE)
  ELSE IF AntiFull(board, PLAYER_ONE) THEN Some(PLAYER_TWO_WIN_VALUE)
  ELSE NoValue

\* the if/elif chain over the two diagonals
ScanDiags(board) ==
  IF DiagFull(board, PLAYER_ONE) THEN Some(PLAYER_ONE_WIN_VALUE)
  ELSE IF DiagFull(board, PLAYER_TWO) THEN Some(PLAYER_TWO_WIN_VALUE)
  ELSE IF AntiFull(board, PLAYER_ONE) THEN Some(PLAYER_ONE_WIN_VALUE)
  ELSE IF AntiFull(board, PLAYER_TWO) THEN Some(PLAYER_TWO_WIN_VALUE)
  ELSE NoValue

\* the search for a None cell stopping after the first row
AnyNone_first_row(board) == \E c \in 1..Len(board[1]) : board[1][c] = None

\* the loop over the rows looking for a None cell
AnyNone(board) ==
  \E r \in 1..Len(board) : \E c \in 1..Len(board[r]) : board[r][c] = None

\* the value update_value assigns for a grid
update_value(board) ==
  LET byRow == ScanRows(board, 1) IN
  IF byRow # NoValue THEN byRow
  ELSE LET byCol == ScanCols(board, 1) IN
    IF byCol # NoValue THEN byCol
    ELSE LET byDiag == ScanDiags(board) IN
      IF byDiag # NoValue THEN byDiag
      ELSE IF AnyNone(board) THEN NoValue
      ELSE Some(0)

----------------------------------------------------------------------------
(* Objects and rows on the heap *)

\* list indexing: i in 0..n-1 and -n..-1 name an element, anything else
\* raises IndexError (0 here)
PyIndex(i, n) ==
  IF 0 <= i /\ i < n THEN i + 1
  ELSE IF -n <= i /\ i < 0 THEN n + i + 1
  ELSE 0

\* the k smallest row references not in used, from id upward
RECURSIVE FreshFrom(_, _, _)
FreshFrom(used, k, id) ==
  IF k = 0 THEN <<>>
  ELSE IF id \in used THEN FreshFrom(used, k, id + 1)
  ELSE <<id>> \o FreshFrom(used, k - 1, id + 1)

\* BoardState(board_size): fresh rows of None, value left at the class default
Construct(h, n) ==
  LET ids == FreshFrom(DOMAIN h, n, 1) IN
  [h  |-> [r \in DOMAIN h \cup {ids[i] : i \in 1..n} |->
             IF r \in DOMAIN h THEN h[r] ELSE [c \in 1..n |-> None]],
   bs |-> [board |-> ids, value |-> NoValue]]

\* copy.copy(self): a new object with the same board list
deepcopy_shallow(h, self) == [h |-> h, bs |-> self]

\* copy.deepcopy(self): a new object whose rows are new lists
deepcopy(h, self) ==
  LET n == Len(self.board)
      ids == FreshFrom(DOMAIN h, n, 1)
      src(r) == self.board[CHOOSE i \in 1..n : ids[i] = r]
  IN
  [h  |-> [r \in DOMAIN h \cup {ids[i] : i \in 1..n} |->
             IF r \in DOMAIN h THEN h[r] ELSE h[src(r)]],
   bs |-> [board |-> ids, value |-> self.value]]

\* make_move without the call of update_value
make_move_no_update(h, self, move, player) ==
  LET r == PyIndex(move[1], Len(self.board)) IN
  IF r = 0 THEN [h |-> h, bs |-> self, err |-> "IndexError"]
  ELSE LET c == PyIndex(move[2], Len(h[self.board[r]])) IN
    IF c = 0 THEN [h |-> h, bs |-> self, err |-> "IndexError"]
    ELSE [h |-> [h EXCEPT ![self.board[r]][c] = player], bs |-> self, err |-> "none"]

\* self.make_move(move, player): writes the cell in place, then update_value
make_move(h, self, move, player) ==
  LET r == PyIndex(move[1], Len(self.board)) IN
  IF r = 0 THEN [h |-> h, bs |-> self, err |-> "IndexError"]
  ELSE LET c == PyIndex(move[2], Len(h[self.board[r]])) IN
    IF c = 0 THEN [h |-> h, bs |-> self, err |-> "IndexError"]
    ELSE LET h2 == [h EXCEPT ![self.board[r]][c] = player] IN
      [h |-> h2,
       bs |-> [self EXCEPT !.value = update_value(Grid(h2, self))],
       err |-> "none"]

\* the two loops nested the other way round: k = j * len(board) + i
RECURSIVE gvbs_loop(_, _, _, _, _)
gvbs_loop_column_major(h, self, player, k, board_states) ==
  LET n == Len(self.board) IN
  IF k >= n * n THEN [h |-> h, ret |-> board_states]
  ELSE LET i == k % n
           j == k \div n
       IN
    IF h[self.board[i + 1]][j + 1] = None
    THEN LET cp == deepcopy(h, self)
             mv == make_move(cp.h, cp.bs, <<i, j>>, player)
         IN gvbs_loop(mv.h, self, player, k + 1, Append(board_states, mv.bs))
    ELSE gvbs_loop(h, self, player, k + 1, board_states)

\* the two nested loops of get_valid_board_states, k = i * len(board) + j
gvbs_loop(h, self, player, k, board_states) ==
  LET n == Len(self.board) IN
  IF k >= n * n THEN [h |-> h, ret |-> board_states]
  ELSE LET i == k \div n
           j == k % n
       IN
    IF h[self.board[i + 1]][j + 1] = None
    THEN LET cp == deepcopy(h, self)
             mv == make_move(cp.h, cp.bs, <<i, j>>, player)
         IN gvbs_loop(mv.h, self, player, k + 1, Append(board_states, mv.bs))
    ELSE gvbs_loop(h, self, player, k + 1, board_states)

\* get_valid_board_states returning no state for a decided board
get_valid_board_states_undecided_only(h, self, player) ==
  IF self.value # NoValue THEN [h |-> h, ret |-> <<>>]
  ELSE gvbs_loop(h, self, player, 0, <<>>)

\* board_state.get_valid_board_states(player): the new heap and the returned list
get_valid_board_states(h, self, player) == gvbs_loop(h, self, player, 0, <<>>)

\* the row lists an object refers to
RowsOf(bs) == {bs.board[i] : i \in 1..Len(bs.board)}

\* the caller keeps board_state only: the list is dropped, unreachable rows
\* are collected and the surviving rows are renamed 1..n (a row's address is
\* never observed by the program)
Rebase(h, bs) ==
  [h  |-> [i \in 1..Len(bs.board) |-> h[bs.board[i]]],
   bs |-> [bs EXCEPT !.board = [i \in 1..Len(bs.board) |-> i]]]

----------------------------------------------------------------------------
(* The API as a state machine: a caller holds board_state, makes one call   *)
(* at a time and looks at what it left behind before the next call          *)

Idle == [name |-> "idle", move |-> <<>>, player |-> "-", ret |-> <<>>]
Called(name, move, player, ret) ==
  [name |-> name, move |-> move, player |-> player, ret |-> ret]

Size == Len(board_state.board)
Board == Grid(rowheap, board_state)

Cell(board, q) == board[q[1] + 1][q[2] + 1]
Positions(n) == (0..(n - 1)) \X (0..(n - 1))
EmptyCells(board) == {q \in Positions(Len(board)) : Cell(board, q) = None}
Marks(board) == Len(board) * Len(board) - Cardinality(EmptyCells(board))

\* row and column arguments tried by the caller: in range, negative, too large
MoveIndex(n) == (-(n + 1))..n
InBounds(move, n) == move[1] \in 0..(n - 1) /\ move[2] \in 0..(n - 1)

\* board_state = BoardState(board_size=n)
Constructed(n) ==
  LET c == Construct(<<>>, n) IN
  /\ rowheap = c.h
  /\ board_state = c.bs
  /\ next_board_states = <<>>
  /\ call = Called("__init__", <<>>, "-", <<>>)
  /\ err = "none"

Init == \E n \in 1..board_size : Constructed(n)

\* board_state.make_move(move, player)
MakeMove(move, player) ==
  /\ call = Idle
  /\ LET mv == make_move(rowheap, board_state, move, player) IN
       /\ rowheap' = mv.h
       /\ board_state' = mv.bs
       /\ err' = mv.err
  /\ call' = Called("make_move", move, player, <<>>)
  /\ UNCHANGED next_board_states

\* board_state.update_value()
UpdateValue ==
  /\ call = Idle
  /\ board_state' = [board_state EXCEPT !.value = update_value(Board)]
  /\ call' = Called("update_value", <<>>, "-", <<>>)
  /\ err' = "none"
  /\ UNCHANGED <<rowheap, next_board_states>>

\* next_board_states = board_state.get_valid_board_states(player)
GetValidBoardStates(player) ==
  /\ call = Idle
  /\ LET gv == get_valid_board_states(rowheap, board_state, player) IN
       /\ rowheap' = gv.h
       /\ next_board_states' = gv.ret
  /\ call' = Called("get_valid_board_states", <<>>, player, <<>>)
  /\ err' = "none"
  /\ UNCHANGED board_state

\* board_state = next_board_states[j], as the game loop does with the state it selects
Adopt(j) ==
  /\ call.name = "get_valid_board_states"
  /\ j \in 1..Len(next_board_states)
  /\ LET rb == Rebase(rowheap, next_board_states[j]) IN
       /\ rowheap' = rb.h
       /\ board_state' = rb.bs
  /\ next_board_states' = <<>>
  /\ call' = Idle
  /\ err' = "none"

\* the caller is done with the call's outcome
Return ==
  /\ call # Idle
  /\ LET rb == Rebase(rowheap, board_state) IN
       /\ rowheap' = rb.h
       /\ board_state' = rb.bs
  /\ next_board_states' = <<>>
  /\ call' = Idle
  /\ err' = "none"

WithinMaxMarks == Marks(Board) <= MaxMarks

Next ==
  \/ \E move \in Positions(Size) : \E player \in Players :
       MakeMove(move, player) /\ WithinMaxMarks'
  \/ \E move \in (MoveIndex(Size) \X MoveIndex(Size)) \ Positions(Size) :
       \E player \in Players : MakeMove(move, player) /\ WithinMaxMarks'
  \/ UpdateValue
  \/ \E player \in Players : GetValidBoardStates(player)
  \/ \E j \in 1..(board_size * board_size) : Adopt(j) /\ WithinMaxMarks'
  \/ Return

Spec == Init /\ [][Next]_vars

----------------------------------------------------------------------------
(* The search.  A frame of the recursion holds one BoardState that nothing  *)
(* else mutates, so the search works on states as values: grid and value.   *)

\* float('inf') and float('-inf'): above and below every board value
PosInf == 2
NegInf == -2

Max(a, b) == IF a >= b THEN a ELSE b
Min(a, b) == IF a <= b THEN a ELSE b

Other(player) == IF player = PLAYER_ONE THEN PLAYER_TWO ELSE PLAYER_ONE

\* a heap object as a value
Snapshot(h, bs) == [board |-> Grid(h, bs), value |-> bs.value]

\* get_valid_board_states on a value: the copy with (i, j) set and its value updated,
\* for each None cell from k = i * len(board) + j on
RECURSIVE successors_from(_, _, _)
successors_from(node, player, k) ==
  LET n == Len(node.board) IN
  IF k >= n * n THEN <<>>
  ELSE LET i == k \div n
           j == k % n
       IN
    IF node.board[i + 1][j + 1] = None
    THEN LET moved == [node.board EXCEPT ![i + 1][j + 1] = player] IN
         <<[board |-> moved, value |-> update_value(moved)]>>
           \o successors_from(node, player, k + 1)
    ELSE successors_from(node, player, k + 1)

successors(node, player) == successors_from(node, player, 0)

RECURSIVE _minimax_with_alpha_beta(_, _, _, _)
RECURSIVE ab_loop(_, _, _, _, _)

\* the maximizer's step taking the smaller value
max_step_takes_min(next_board_state, alpha, beta) ==
  Min(alpha, _minimax_with_alpha_beta(next_board_state, alpha, beta, PLAYER_TWO))

\* one iteration of the maximizer's loop: the new alpha
max_step(next_board_state, alpha, beta) ==
  Max(alpha, _minimax_with_alpha_beta(next_board_state, alpha, beta, PLAYER_TWO))

\* the minimizer's step handing the move to the minimizer again
min_step_same_player(next_board_state, alpha, beta) ==
  Min(beta, _minimax_with_alpha_beta(next_board_state, alpha, beta, PLAYER_TWO))

\* one iteration of the minimizer's loop: the new beta
min_step(next_board_state, alpha, beta) ==
  Min(beta, _minimax_with_alpha_beta(next_board_state, alpha, beta, PLAYER_ONE))

\* the for loop from the k-th successor on, with its break and the return after it
ab_loop(states, k, alpha, beta, player) ==
  IF k > Len(states)
  THEN (IF player = PLAYER_ONE THEN alpha ELSE beta)
  ELSE IF player = PLAYER_ONE
  THEN LET a2 == max_step(states[k], alpha, beta) IN
       IF beta <= a2 THEN a2 ELSE ab_loop(states, k + 1, a2, beta, player)
  ELSE LET b2 == min_step(states[k], alpha, beta) IN
       IF b2 <= alpha THEN b2 ELSE ab_loop(states, k + 1, alpha, b2, player)

_minimax_with_alpha_beta(node, alpha, beta, player) ==
  IF node.value # NoValue THEN node.value[1]
  ELSE ab_loop(successors(node, player), 1, alpha, beta, player)

minimax(node, player) == _minimax_with_alpha_beta(node, NegInf, PosInf, player)

----------------------------------------------------------------------------
(* Legal alternating play from the empty board, with calls of the search    *)

Count(board, p) == Cardinality({q \in Positions(Len(board)) : Cell(board, q) = p})
ToMove(board) ==
  IF Count(board, PLAYER_ONE) = Count(board, PLAYER_TWO) THEN PLAYER_ONE ELSE PLAYER_TWO

\* the player to move marks a None cell of an undecided board
PlayMove(move) ==
  /\ board_state.value = NoValue
  /\ Cell(Board, move) = None
  /\ MakeMove(move, ToMove(Board))

\* minimax(board_state, player)
CallMinimax(player) ==
  /\ call = Idle
  /\ call' = Called("minimax", <<>>, player,
                    Some(minimax(Snapshot(rowheap, board_state), player)))
  /\ err' = "none"
  /\ UNCHANGED <<rowheap, board_state, next_board_states>>

NextPlay ==
  \/ \E move \in Positions(Size) : PlayMove(move)
  \/ \E player \in Players : CallMinimax(player)
  \/ Return

SpecPlay == Init /\ [][NextPlay]_vars

----------------------------------------------------------------------------
(* update_value and make_move on every grid, the malformed ones included    *)

\* any grid; the value is the one make_move left when the grid was filled in
Given(n, board) ==
  /\ rowheap = board
  /\ board_state = [board |-> [i \in 1..n |-> i], value |-> update_value(board)]
  /\ next_board_states = <<>>
  /\ call = Idle
  /\ err = "none"

InitGrid == \E n \in 1..board_size : \E board \in [1..n -> [1..n -> Cells]] : Given(n, board)

NextGrid ==
  \/ UpdateValue
  \/ \E move \in Positions(Size) : \E player \in Players : MakeMove(move, player)
  \/ Return

SpecGrid == InitGrid /\ [][NextGrid]_vars

----------------------------------------------------------------------------
(* Reference notions the properties are stated with *)

\* the full lines of an n x n grid, as sets of (row, column)
Lines(n) ==
  {{<<r, c>> : c \in 0..(n - 1)} : r \in 0..(n - 1)}
    \cup {{<<r, c>> : r \in 0..(n - 1)} : c \in 0..(n - 1)}
    \cup {{<<i, i>> : i \in 0..(n - 1)}}
    \cup {{<<n - 1 - i, i>> : i \in 0..(n - 1)}}

HasLine(board, p) == \E L \in Lines(Len(board)) : \A q \in L : Cell(board, q) = p

WinValue(p) == IF p = PLAYER_ONE THEN PLAYER_ONE_WIN_VALUE ELSE PLAYER_TWO_WIN_VALUE

\* Plain exhaustive minimax, tabulated by backward induction over the number
\* of None cells.  A grid is numbered in base 3, cell k = i * n + j being
\* digit k (None 0, PlayerOne 1, PlayerTwo 2); entry code + 1 of the table
\* is <<value with PlayerOne to move, value with PlayerTwo to move>>.
Digit(cell) == IF cell = None THEN 0 ELSE IF cell = PLAYER_ONE THEN 1 ELSE 2
Mark(d) == IF d = 0 THEN None ELSE IF d = 1 THEN PLAYER_ONE ELSE PLAYER_TWO

RECURSIVE CodeFrom(_, _)
CodeFrom(board, k) ==
  LET n == Len(board) IN
  IF k >= n * n THEN 0
  ELSE Digit(board[(k \div n) + 1][(k % n) + 1]) * 3^k + CodeFrom(board, k + 1)

Code(board) == CodeFrom(board, 0)

Decode(n, code) ==
  [r \in 1..n |-> [c \in 1..n |-> Mark((code \div 3^((r - 1) * n + (c - 1))) % 3)]]

Free(n, code) == {k \in 0..(n * n - 1) : (code \div 3^k) % 3 = 0}
FreeCount(n) == [i \in 1..3^(n * n) |-> Cardinality(Free(n, i - 1))] \o <<>>

SetMax(vals) == CHOOSE m \in vals : \A w \in vals : m >= w
SetMin(vals) == CHOOSE m \in vals : \A w \in vals : m <= w

\* a decided grid has its terminal value for both players; otherwise
\* PlayerOne takes the largest and PlayerTwo the smallest value over all moves
PlainEntry(n, prev, code) ==
  LET board == Decode(n, code) IN
  IF HasLine(board, PLAYER_ONE) THEN <<PLAYER_ONE_WIN_VALUE, PLAYER_ONE_WIN_VALUE>>
  ELSE IF HasLine(board, PLAYER_TWO) THEN <<PLAYER_TWO_WIN_VALUE, PLAYER_TWO_WIN_VALUE>>
  ELSE IF Free(n, code) = {} THEN <<TIE_VALUE, TIE_VALUE>>
  ELSE <<SetMax({prev[code + 3^k + 1][2] : k \in Free(n, code)}),
         SetMin({prev[code + 2 * 3^k + 1][1] : k \in Free(n, code)})>>

\* the table with the grids of e None cells filled in, given those of fewer
PlainPass(n, cnt, e, prev) ==
  [i \in 1..3^(n * n) |->
     IF cnt[i] = e THEN PlainEntry(n, prev, i - 1)
     ELSE IF cnt[i] < e THEN prev[i]
     ELSE <<TIE_VALUE, TIE_VALUE>>] \o <<>>

RECURSIVE PlainBuild(_, _, _, _)
PlainBuild(n, cnt, e, prev) ==
  IF e > n * n THEN prev ELSE PlainBuild(n, cnt, e + 1, PlainPass(n, cnt, e, prev))

PlainTable == [n \in 1..board_size |-> PlainBuild(n, FreeCount(n), 0, <<>>)] \o <<>>

PlainMinimax(board, player) ==
  PlainTable[Len(board)][Code(board) + 1][IF player = PLAYER_ONE THEN 1 ELSE 2]

----------------------------------------------------------------------------
(* Properties of the search, under SpecPlay *)

\* C1: on every board reached by legal alternating play and for either player
\* to move, minimax returns the value of plain exhaustive minimax, which is
\* one of +1, 0, -1 and never an infinity sentinel
C1_AlphaBetaIsPlainMinimax ==
  call.name = "minimax" =>
    /\ call.ret = Some(PlainMinimax(Board, call.player))
    /\ call.ret[1] \in {PLAYER_ONE_WIN_VALUE, TIE_VALUE, PLAYER_TWO_WIN_VALUE}

\* minimax has returned PlayerTwo's win on an undecided 3 x 3 board
C1_Witness ==
  /\ call.name = "minimax"
  /\ Size = board_size
  /\ board_state.value = NoValue
  /\ Marks(Board) <= 4
  /\ call.ret = Some(PLAYER_TWO_WIN_VALUE)

\* C2: minimax of the empty 3 x 3 board with PlayerOne to move is the tie value
C2_EmptyBoardIsTie ==
  (call.name = "minimax" /\ call.player = PLAYER_ONE /\ Size = 3 /\ Marks(Board) = 0)
    => call.ret = Some(TIE_VALUE)

\* minimax has returned for PlayerOne on the empty 3 x 3 board
C2_Witness ==
  /\ call.name = "minimax"
  /\ call.player = PLAYER_ONE
  /\ Size = 3
  /\ EmptyCells(Board) = Positions(3)

----------------------------------------------------------------------------
(* Properties of update_value, under SpecGrid *)

\* update_value has run on the current grid, called directly or by make_move
Updated == call.name \in {"update_value", "make_move"} /\ err = "none"

\* C3: when exactly one player has a full row, column or diagonal, update_value
\* sets that player's win value, also right after the make_move that completes
\* the line
C3_SingleWinnerWins ==
  \A p \in Players :
    (Updated /\ HasLine(Board, p) /\ ~HasLine(Board, Other(p)))
      => board_state.value = Some(WinValue(p))

\* PlayerTwo's make_move has left a 3 x 3 grid where only PlayerTwo has a line
C3_Witness ==
  /\ call.name = "make_move"
  /\ call.player = PLAYER_TWO
  /\ Size = 3
  /\ HasLine(Board, PLAYER_TWO)
  /\ ~HasLine(Board, PLAYER_ONE)
  /\ board_state.value = Some(PLAYER_TWO_WIN_VALUE)

\* C4: without a full line, the value is the tie value exactly when no cell
\* is None and None exactly when some cell is None; a full grid never has
\* value None
C4_TieIffFull ==
  Updated =>
    /\ (~HasLine(Board, PLAYER_ONE) /\ ~HasLine(Board, PLAYER_TWO)) =>
         /\ board_state.value = Some(TIE_VALUE) <=> EmptyCells(Board) = {}
         /\ board_state.value = NoValue <=> EmptyCells(Board) # {}
    /\ EmptyCells(Board) = {} => board_state.value # NoValue

\* update_value has run on a full 3 x 3 grid without a line
C4_Witness ==
  /\ call.name = "update_value"
  /\ Size = 3
  /\ EmptyCells(Board) = {}
  /\ ~HasLine(Board, PLAYER_ONE)
  /\ ~HasLine(Board, PLAYER_TWO)
  /\ board_state.value = Some(TIE_VALUE)

\* the lines in the order update_value tests them: rows by ascending index,
\* columns by ascending index, main diagonal, anti-diagonal
LineAt(n, k) ==
  IF k <= n THEN {<<k - 1, c>> : c \in 0..(n - 1)}
  ELSE IF k <= 2 * n THEN {<<r, k - n - 1>> : r \in 0..(n - 1)}
  ELSE IF k = 2 * n + 1 THEN {<<i, i>> : i \in 0..(n - 1)}
  ELSE {<<n - 1 - i, i>> : i \in 0..(n - 1)}

LineFull(board, k, p) == \A q \in LineAt(Len(board), k) : Cell(board, q) = p
FullLines(board) ==
  {k \in 1..(2 * Len(board) + 2) : \E p \in Players : LineFull(board, k, p)}
FirstFullLine(board) == CHOOSE k \in FullLines(board) : \A m \in FullLines(board) : k <= m

FullRows(board, p) == {r \in 0..(Len(board) - 1) : \A c \in 0..(Len(board) - 1) : Cell(board, <<r, c>>) = p}

\* C5 as stated: a grid with a full row of PlayerOne and a full row of
\* PlayerTwo is PlayerOne's win, whichever row comes first
C5_PlayerOneRowAlwaysFirst ==
  (Updated /\ FullRows(Board, PLAYER_ONE) # {} /\ FullRows(Board, PLAYER_TWO) # {})
    => board_state.value = Some(PLAYER_ONE_WIN_VALUE)

\* C5 amended: the first full line in the order rows, columns, main diagonal,
\* anti-diagonal (rows and columns by ascending index) decides, so of a full
\* row of PlayerOne and a full row of PlayerTwo the one with the smaller index wins
C5_FirstFullLineDecides ==
  (Updated /\ FullLines(Board) # {}) =>
    \A p \in Players :
      LineFull(Board, FirstFullLine(Board), p) => board_state.value = Some(WinValue(p))

\* update_value has run on a grid whose PlayerTwo row lies above a PlayerOne row
C5_Witness ==
  /\ call.name = "update_value"
  /\ \E r1 \in FullRows(Board, PLAYER_ONE) : \E r2 \in FullRows(Board, PLAYER_TWO) : r2 < r1
  /\ board_state.value = Some(PLAYER_TWO_WIN_VALUE)

----------------------------------------------------------------------------
(* Properties of the BoardState operations, under Spec *)

Returned == call.name = "get_valid_board_states"

C6_Consistent ==
  /\ board_state.value = update_value(Board)
  /\ \A j \in 1..Len(next_board_states) :
       next_board_states[j].value = update_value(Grid(rowheap, next_board_states[j]))

C6_Idempotent ==
  call'.name = "update_value" => board_state'.value = board_state.value

\* C6: the value field of the state the caller holds and of every returned
\* successor is what update_value computes from its grid, after construction
\* and after every call; update_value on an unchanged grid keeps the value
C6_ValueMatchesGrid == [](C6_Consistent) /\ [][C6_Idempotent]_vars

\* a returned list holds a decided successor next to an undecided one
C6_Witness ==
  /\ Returned
  /\ \E j, k \in 1..Len(next_board_states) :
       /\ next_board_states[j].value # NoValue
       /\ next_board_states[k].value = NoValue

RowMajor(board, q) == q[1] * Len(board) + q[2]
\* the j-th None cell in row-major order
NthEmpty(board, j) ==
  CHOOSE q \in EmptyCells(board) :
    Cardinality({e \in EmptyCells(board) : RowMajor(board, e) < RowMajor(board, q)}) = j - 1

Changed(parent, child) == {q \in Positions(Len(parent)) : Cell(child, q) # Cell(parent, q)}

\* C7: get_valid_board_states(player) on a grid with k None cells returns k
\* states; the j-th differs from the grid it was called on in exactly the j-th
\* None cell in row-major order, which holds player's mark
C7_OneSuccessorPerEmptyCell ==
  [][Returned' =>
       /\ Len(next_board_states') = Cardinality(EmptyCells(Board))
       /\ \A j \in 1..Len(next_board_states') :
            LET child == Grid(rowheap', next_board_states'[j]) IN
            /\ Changed(Board, child) = {NthEmpty(Board, j)}
            /\ Cell(child, NthEmpty(Board, j)) = call'.player
    ]_vars

\* a list of several successors of a 3 x 3 grid whose first cell is taken
C7_Witness ==
  /\ Returned
  /\ Size = 3
  /\ Cell(Board, <<0, 0>>) # None
  /\ Len(next_board_states) >= 2

\* C8 as stated: the list is empty when the grid is full or the state decided
C8_EmptyWhenFullOrDecided ==
  [][(Returned' /\ (EmptyCells(Board) = {} \/ board_state.value # NoValue))
       => next_board_states' = <<>>]_vars

\* C8 amended: the list is empty exactly when the grid is full; a decided
\* grid with k None cells still yields k successors
C8_EmptyIffFull ==
  [][Returned' =>
       /\ next_board_states' = <<>> <=> EmptyCells(Board) = {}
       /\ board_state.value # NoValue =>
            Len(next_board_states') = Cardinality(EmptyCells(Board))
    ]_vars

\* successors were returned for a state that is already decided
C8_Witness ==
  /\ Returned
  /\ board_state.value # NoValue
  /\ next_board_states # <<>>

NoSharedRows(bs, list) ==
  /\ \A j \in 1..Len(list) : RowsOf(list[j]) \cap RowsOf(bs) = {}
  /\ \A j, k \in 1..Len(list) : j # k => RowsOf(list[j]) \cap RowsOf(list[k]) = {}

\* get_valid_board_states leaves the state it is called on as it was
SuccessorsLeaveStateAlone ==
  Returned' =>
    /\ Board' = Board
    /\ board_state' = board_state
    /\ NoSharedRows(board_state', next_board_states')

C10_OutOfBoundsRaises ==
  [][(call'.name = "make_move" /\ ~InBounds(call'.move, Size)) =>
       /\ err' = "IndexError"
       /\ Board' = Board
       /\ board_state'.value = board_state.value
    ]_vars

----------------------------------------------------------------------------
(* Moves onto occupied cells *)

\* C11: make_move onto a cell of the grid that already holds a mark raises
\* an error, does not overwrite the cell and changes neither grid nor value
C11_OccupiedCellRejected ==
  [][(/\ call'.name = "make_move"
      /\ InBounds(call'.move, Size)
      /\ Cell(Board, call'.move) # None) =>
       /\ err' # "none"
       /\ Board' = Board
       /\ board_state'.value = board_state.value
    ]_vars

----------------------------------------------------------------------------
(* play_tic_tac_toe: the human is PlayerOne, the computer PlayerTwo.  The   *)
(* position in the loop is the last call made: "__init__" and "select" are  *)
(* the top of the loop, "make_move" is the human's move just made,          *)
(* "get_valid_board_states" the computer's successors just listed, and      *)
(* "return" the end of the function.                                        *)

\* longest line typed at the prompt
MaxInputLen == 2

\* characters typed at the prompt: row letters in and out of range, an
\* uppercase letter, digits in and out of range
InputChars == {"a", "b", "c", "d", "A", "0", "1", "2", "3", "4"}
Inputs == UNION {[1..k -> InputChars] : k \in 1..MaxInputLen}

islower(ch) == ch \in {"a", "b", "c", "d"}
isdigit(ch) == ch \in {"0", "1", "2", "3", "4"}
\* ord(ch) - ord('a') of a lowercase letter
LetterOffset(ch) == CASE ch = "a" -> 0 [] ch = "b" -> 1 [] ch = "c" -> 2 [] ch = "d" -> 3
\* int(ch) of a digit
int(ch) == CASE ch = "0" -> 0 [] ch = "1" -> 1 [] ch = "2" -> 2 [] ch = "3" -> 3 [] ch = "4" -> 4

\* the pass that does not look whether the spot is taken
get_player_move_any_spot(board, move_input) ==
  LET n == Len(board) IN
  IF Len(move_input) # 2 THEN <<>>
  ELSE IF ~islower(move_input[1]) \/ LetterOffset(move_input[1]) \notin 0..(n - 1) THEN <<>>
  ELSE IF ~isdigit(move_input[2]) \/ int(move_input[2]) \notin 1..n THEN <<>>
  ELSE <<(<<LetterOffset(move_input[1]), int(move_input[2]) - 1>>)>>

\* one pass of the loop of get_player_move on the line move_input:
\* <<>> when the line is refused and the prompt repeats, else <<(row, column)>>
get_player_move(board, move_input) ==
  LET n == Len(board) IN
  IF Len(move_input) # 2 THEN <<>>
  ELSE IF ~islower(move_input[1]) \/ LetterOffset(move_input[1]) \notin 0..(n - 1) THEN <<>>
  ELSE IF ~isdigit(move_input[2]) \/ int(move_input[2]) \notin 1..n THEN <<>>
  ELSE LET row == LetterOffset(move_input[1])
           column == int(move_input[2]) - 1
       IN IF board[row + 1][column + 1] # None THEN <<>> ELSE <<(<<row, column>>)>>

\* the victory text without the branch for a tie
get_victory_text_no_tie(bs) ==
  IF bs.value = Some(PLAYER_ONE_WIN_VALUE) THEN "You win!"
  ELSE IF bs.value = Some(PLAYER_TWO_WIN_VALUE) THEN "Computer wins!"
  ELSE "None"

\* the text of a decided state, "None" for an undecided one
get_victory_text(bs) ==
  IF bs.value = Some(PLAYER_ONE_WIN_VALUE) THEN "You win!"
  ELSE IF bs.value = Some(PLAYER_TWO_WIN_VALUE) THEN "Computer wins!"
  ELSE IF bs.value = Some(TIE_VALUE) THEN "It's a tie!"
  ELSE "None"

\* the comparison of a loop that looks for the largest value
improves_greater(value, best_value) == value > best_value

\* the comparison keeping a later state of equal value
improves_or_equal(value, best_value) == value <= best_value

\* if value < best_value
improves(value, best_value) == value < best_value

\* the selection loop from the k-th successor on; best_board_state is the
\* index of the state held so far, 0 for None
RECURSIVE select_loop(_, _, _, _)
select_loop(states, k, best_board_state, best_value) ==
  IF k > Len(states)
  THEN [best_board_state |-> best_board_state, best_value |-> best_value]
  ELSE LET value == minimax(states[k], PLAYER_ONE) IN
       IF improves(value, best_value)
       THEN select_loop(states, k + 1, k, value)
       ELSE select_loop(states, k + 1, best_board_state, best_value)

\* next_board_states as values
Candidates == [k \in 1..Len(next_board_states) |-> Snapshot(rowheap, next_board_states[k])]

\* the name None where a BoardState is expected: no grid, no value to read
NoneState == [board |-> <<>>, value |-> NoValue]

LoopTop ==
  /\ call.name \in {"__init__", "select"}
  /\ err = "none"
  /\ board_state.value = NoValue

\* player_move = get_player_move(board_state); board_state.make_move(player_move, PLAYER_ONE)
HumanMove(move_input) ==
  /\ LoopTop
  /\ LET player_move == get_player_move(Board, move_input) IN
       /\ player_move # <<>>
       /\ LET mv == make_move(rowheap, board_state, player_move[1], PLAYER_ONE) IN
            /\ rowheap' = mv.h
            /\ board_state' = mv.bs
            /\ err' = mv.err
       /\ call' = Called("make_move", player_move[1], PLAYER_ONE, <<>>)
  /\ UNCHANGED next_board_states

\* no victory text after the human's move:
\* next_board_states = board_state.get_valid_board_states(PLAYER_TWO)
ComputerSuccessors ==
  /\ call.name = "make_move"
  /\ err = "none"
  /\ get_victory_text(board_state) = "None"
  /\ LET gv == get_valid_board_states(rowheap, board_state, PLAYER_TWO) IN
       /\ rowheap' = gv.h
       /\ next_board_states' = gv.ret
  /\ call' = Called("get_valid_board_states", <<>>, PLAYER_TWO, <<>>)
  /\ err' = "none"
  /\ UNCHANGED board_state

\* the selection loop and board_state = best_board_state; reading the value
\* of None in get_victory_text raises AttributeError
ComputerSelect ==
  /\ call.name = "get_valid_board_states"
  /\ err = "none"
  /\ LET sel == select_loop(Candidates, 1, 0, PosInf) IN
       /\ call' = Called("select", <<>>, PLAYER_TWO, Some(sel.best_value))
       /\ IF sel.best_board_state = 0
          THEN /\ rowheap' = <<>>
               /\ board_state' = NoneState
               /\ err' = "AttributeError"
          ELSE /\ LET rb == Rebase(rowheap, next_board_states[sel.best_board_state]) IN
                    /\ rowheap' = rb.h
                    /\ board_state' = rb.bs
               /\ err' = "none"
  /\ next_board_states' = <<>>

\* there is a victory text after the human's or the computer's move: print it and return
GameReturn ==
  /\ call.name \in {"make_move", "select"}
  /\ err = "none"
  /\ get_victory_text(board_state) # "None"
  /\ call' = Called("return", <<>>, "-", <<>>)
  /\ UNCHANGED <<rowheap, board_state, next_board_states, err>>

InitGame == Constructed(board_size)

NextGame ==
  \/ \E move_input \in Inputs : HumanMove(move_input)
  \/ ComputerSuccessors
  \/ ComputerSelect
  \/ GameReturn

SpecGame == InitGame /\ [][NextGame]_vars

\* the computer's turn: an undecided state after the human's move
ComputerTurn ==
  /\ call.name = "make_move"
  /\ err = "none"
  /\ board_state.value = NoValue

\* C12: the state the computer's selection puts in board_state is one of the
\* successors listed for PlayerTwo, its minimax value with PlayerOne to move
\* is the least among them, and every successor before it in row-major order
\* has a larger one
C12_FirstMinimalSuccessor ==
  [][call'.name = "select" =>
       \E k \in 1..Len(next_board_states) :
         /\ Snapshot(rowheap', board_state') = Candidates[k]
         /\ \A j \in 1..Len(next_board_states) :
              /\ PlainMinimax(Candidates[k].board, PLAYER_ONE)
                   <= PlainMinimax(Candidates[j].board, PLAYER_ONE)
              /\ j < k => PlainMinimax(Candidates[k].board, PLAYER_ONE)
                            < PlainMinimax(Candidates[j].board, PLAYER_ONE)
         /\ call'.ret = Some(PlainMinimax(Candidates[k].board, PLAYER_ONE))
    ]_vars

\* a selection among several successors of the least value, not all of them the least
C12_Witness ==
  /\ call.name = "select"
  /\ err = "none"
  /\ Marks(Board) = 4
  /\ call.ret = Some(TIE_VALUE)
  /\ Cell(Board, <<0, 0>>) # PLAYER_TWO

\* the four corners of the 3x3 board
Corners == {<<0, 0>>, <<0, 2>>, <<2, 0>>, <<2, 2>>}

\* the human has played the centre of the empty board and the computer's
\* successors are listed
CentreOpening ==
  /\ call.name = "get_valid_board_states"
  /\ Marks(Board) = 1
  /\ Cell(Board, <<1, 1>>) = PLAYER_ONE

\* C13: after PlayerOne's move to the centre (1,1) of the empty 3x3 board the
\* computer's reply is on one of the four corners and the two-move board is undecided
C13_CentreAnsweredInCorner ==
  [][(CentreOpening /\ call'.name = "select") =>
       /\ err' = "none"
       /\ Marks(Board') = 2
       /\ Cell(Board', <<1, 1>>) = PLAYER_ONE
       /\ \E q \in Corners : Cell(Board', q) = PLAYER_TWO
       /\ board_state'.value = NoValue
       /\ update_value(Board') = NoValue
    ]_vars

\* the reply to the centre opening has been made
C13_Witness ==
  /\ call.name = "select"
  /\ Marks(Board) = 2
  /\ Cell(Board, <<1, 1>>) = PLAYER_ONE
  /\ Count(Board, PLAYER_TWO) = 1

\* a full line of PlayerOne's mark and a full line of PlayerTwo's mark
BothHaveLine(board) == HasLine(board, PLAYER_ONE) /\ HasLine(board, PLAYER_TWO)

\* C14: under legal alternating play from the empty board (PlayerOne first,
\* one None cell marked per turn, no move on a decided state) no grid, and no
\* successor the search expands from an undecided one for the player to
\* move, holds a full line of each player
C14_NeverBothLines ==
  /\ ~BothHaveLine(Board)
  /\ board_state.value = NoValue =>
     \A k \in 1..Len(successors(Snapshot(rowheap, board_state), ToMove(Board))) :
       ~BothHaveLine(successors(Snapshot(rowheap, board_state), ToMove(Board))[k].board)

\* a full 3x3 grid reached in play where PlayerOne has a line
C14_Witness ==
  /\ Size = 3
  /\ Marks(Board) = 9
  /\ HasLine(Board, PLAYER_ONE)
  /\ call.name = "make_move"

\* C15: in the game loop on the 3x3 board the computer never loses: no state
\* of the loop has value PLAYER_ONE_WIN_VALUE, no successor is missing when
\* the computer selects, and the loop returns only on a PlayerTwo win or a tie
C15_ComputerNeverLoses ==
  /\ board_state.value # Some(PLAYER_ONE_WIN_VALUE)
  /\ err = "none"
  /\ call.name = "return" =>
       board_state.value \in {Some(PLAYER_TWO_WIN_VALUE), Some(TIE_VALUE)}

\* the loop has returned after a game the human played to the last cell
C15_Witness ==
  /\ call.name = "return"
  /\ Marks(Board) = 9
  /\ board_state.value = Some(TIE_VALUE)

----------------------------------------------------------------------------
(* Calls of the windowed search on the positions of legal play *)

\* the windows alpha < beta over the board values and the two infinities
Windows == {w \in (NegInf..PosInf) \X (NegInf..PosInf) : w[1] < w[2]}

CalledSearch(alpha, beta, player, ret) ==
  [name |-> "_minimax_with_alpha_beta", move |-> <<>>, player |-> player, ret |-> ret,
   alpha |-> alpha, beta |-> beta]

\* _minimax_with_alpha_beta(board_state, alpha, beta, player) for the player to move
CallSearch(alpha, beta) ==
  /\ call = Idle
  /\ LET player == ToMove(Board) IN
       call' = CalledSearch(alpha, beta, player,
                 Some(_minimax_with_alpha_beta(Snapshot(rowheap, board_state),
                                               alpha, beta, player)))
  /\ err' = "none"
  /\ UNCHANGED <<rowheap, board_state, next_board_states>>

NextWindow ==
  \/ \E move \in Positions(Size) : PlayMove(move)
  \/ \E w \in Windows : CallSearch(w[1], w[2])
  \/ Return

SpecWindow == Init /\ [][NextWindow]_vars

\* the windowed search has returned
Searched == call.name = "_minimax_with_alpha_beta"

\* the value of the position by plain minimax, for the player the search was called with
TrueValue == PlainMinimax(Board, call.player)

\* C16 as stated: with alpha < beta the search returns the true minimax value
\* clamped to the window, max(alpha, min(beta, m)), a value in [alpha, beta]
C16_ClampedToWindow ==
  Searched =>
    /\ call.ret = Some(Max(call.alpha, Min(call.beta, TrueValue)))
    /\ call.ret[1] >= call.alpha
    /\ call.ret[1] <= call.beta

\* C16 amended: with alpha < beta the search returns the true minimax value m
\* when alpha < m < beta, a value at most alpha when m <= alpha and a value
\* at least beta when m >= beta; on a decided state it returns the state's
\* value whatever the window
C16_BoundedByWindow ==
  Searched =>
    /\ (call.alpha < TrueValue /\ TrueValue < call.beta) => call.ret = Some(TrueValue)
    /\ TrueValue <= call.alpha => call.ret[1] <= call.alpha
    /\ TrueValue >= call.beta => call.ret[1] >= call.beta
    /\ board_state.value # NoValue => call.ret = board_state.value

\* a search of an undecided position that returned a value outside its window
C16_Witness ==
  /\ Searched
  /\ board_state.value = NoValue
  /\ call.ret[1] > call.beta

\* the statements of the loop still to run before it must have returned:
\* four for each cell still None, and those left in the current round
Rank ==
  4 * Cardinality(EmptyCells(Board))
    + (CASE call.name = "return" -> 0
         [] call.name = "get_valid_board_states" -> 1
         [] call.name = "make_move" -> 2
         [] OTHER -> 3)

\* the loop can take its next step: a line the prompt accepts exists, the
\* computer's statements run, a decided state is returned on
CanStep ==
  \/ LoopTop /\ \E move_input \in Inputs : get_player_move(Board, move_input) # <<>>
  \/ ComputerTurn
  \/ call.name = "get_valid_board_states" /\ err = "none"
  \/ call.name \in {"make_move", "select"} /\ err = "none" /\ board_state.value # NoValue

\* C17: the game loop ends, and ends decided.  Until it has returned it can
\* always take a step and every step lowers Rank, which is never negative;
\* on return the value is +1, -1 or 0; no state holds more than 5 marks of
\* the human or 4 of the computer; the only step from a decided state is the
\* return, which leaves the state as it is, and nothing follows the return
C17_LoopTerminatesDecided ==
  /\ [](/\ err = "none"
        /\ Size = board_size
        /\ call.name # "return" => CanStep
        /\ Rank >= 0
        /\ Count(Board, PLAYER_ONE) <= 5
        /\ Count(Board, PLAYER_TWO) <= 4
        /\ call.name = "return" =>
             board_state.value \in {Some(PLAYER_ONE_WIN_VALUE),
                                    Some(PLAYER_TWO_WIN_VALUE), Some(TIE_VALUE)})
  /\ [][/\ call.name # "return"
        /\ Rank' < Rank
        /\ board_state.value # NoValue =>
             (call'.name = "return" /\ Board' = Board /\ board_state' = board_state)
       ]_vars

\* the loop has returned on a win found after a computer move
C17_Witness ==
  /\ call.name = "return"
  /\ board_state.value = Some(PLAYER_TWO_WIN_VALUE)
  /\ Count(Board, PLAYER_ONE) = Count(Board, PLAYER_TWO)

\* the minimax value of the current position for the player whose turn it is
PositionValue == PlainMinimax(Board, ToMove(Board))

\* C18: the minimax value of the position never increases along the game
\* loop, so from one computer turn to the next; once it is -1 it stays -1;
\* on return the value of the state is that value, and the loop does reach
\* its return (it can always step, and each step lowers Rank)
C18_ValueNeverIncreases ==
  /\ [](/\ err = "none"
        /\ call.name # "return" => CanStep
        /\ call.name = "return" => board_state.value = Some(PositionValue)
        /\ (call.name = "return" /\ Count(Board, PLAYER_ONE) = Count(Board, PLAYER_TWO))
             => board_state.value = Some(PLAYER_TWO_WIN_VALUE))
  /\ [][/\ PositionValue' <= PositionValue
        /\ PositionValue = PLAYER_TWO_WIN_VALUE => PositionValue' = PLAYER_TWO_WIN_VALUE
        /\ Rank' < Rank
       ]_vars

\* the computer has moved in a position it wins, and has not won yet
C18_Witness ==
  /\ call.name = "select"
  /\ err = "none"
  /\ board_state.value = NoValue
  /\ PositionValue = PLAYER_TWO_WIN_VALUE

\* the cells whose content differs between two grids of the same size
Differing(before, after) == {q \in Positions(Len(before)) : Cell(before, q) # Cell(after, q)}

\* C19: in every state of the game loop PlayerOne has as many marks as
\* PlayerTwo or one more; a step that changes the grid changes exactly one
\* cell, from None to the mark of the player who moved, the human's and the
\* computer's moves are such steps, and a cell holding a mark keeps it
C19_OneMarkPerStep ==
  /\ [](/\ err = "none"
        /\ Count(Board, PLAYER_ONE) - Count(Board, PLAYER_TWO) \in {0, 1})
  /\ [][/\ Len(Board') = Len(Board)
        /\ \A q \in Positions(Size) : Cell(Board, q) # None => Cell(Board', q) = Cell(Board, q)
        /\ Board' # Board =>
             \E q \in Positions(Size) :
               /\ Differing(Board, Board') = {q}
               /\ Cell(Board, q) = None
               /\ Cell(Board', q) = ToMove(Board)
        /\ call'.name \in {"make_move", "select"} => Board' # Board
        /\ call'.name \in {"get_valid_board_states", "return"} => Board' = Board
       ]_vars

\* the computer has answered the human's second move
C19_Witness ==
  /\ call.name = "select"
  /\ Count(Board, PLAYER_ONE) = 2
  /\ Count(Board, PLAYER_TWO) = 2

\* C20: when the game loop asks the computer to move, the list of
\* successors for PlayerTwo is not empty: there is one for each None cell of
\* the state, which has at least one; the selection puts one of them in
\* board_state, never None, and the value read from it is that successor's
C20_BestBoardStateNeverNone ==
  /\ [](/\ err = "none"
        /\ board_state # NoneState
        /\ ComputerTurn => EmptyCells(Board) # {}
        /\ call.name = "get_valid_board_states" =>
             /\ next_board_states # <<>>
             /\ Len(next_board_states) = Cardinality(EmptyCells(Board)))
  /\ [][call'.name = "select" =>
          /\ call.name = "get_valid_board_states"
          /\ call'.ret # Some(PosInf)
          /\ \E k \in 1..Len(next_board_states) :
               /\ Grid(rowheap', board_state') = Grid(rowheap, next_board_states[k])
               /\ board_state'.value = next_board_states[k].value
       ]_vars

\* the computer has selected its last move of a game: one None cell is left
C20_Witness ==
  /\ call.name = "select"
  /\ err = "none"
  /\ Cardinality(EmptyCells(Board)) = 1

====
